---------------------------- MODULE Spec2Model ----------------------------
(***************************************************************************)
(* Model of the request dispatch pipeline of HttpClient                    *)
(* (src/src/core/client.ts): the concurrency gate of dispatchRequest and   *)
(* processQueue, the retry loop of retryRequest with its backoff delays,    *)
(* the abort signals (caller signal, internal controller, timeout signal),  *)
(* the registry of pending calls, and the release of the slot in           *)
(* dispatchRequest's finally block.                                        *)
(* Beside it, each under a specification of its own: the response cache    *)
(* (src/unnamed/part_001) with the cache lookup of request(); the cache    *)
(* key derivation and the config merge of request(), as functions; the     *)
(* interceptor managers with the promise chains request() and              *)
(* dispatchRequest build over their handlers; the stream decoder           *)
(* SSEService.streamJson (src/src/types.ts).                               *)
(*                                                                         *)
(* Every action is one synchronous run of JavaScript between two awaits:   *)
(* the code is single-threaded, so such a run is atomic, and the runs of   *)
(* different requests interleave at the awaits.                            *)
(***************************************************************************)
EXTENDS Integers, Sequences, FiniteSets, TLC

\* ----------------------------------------------------------------- bounds
NumReqs == 3          \* requests issued by the callers
MaxConcurrency == 2   \* largest configured concurrency limit
MaxRetry == 2         \* largest configured retry count
MaxTimeout == 2       \* largest configured timeout, in ticks
MaxElapsed == 3       \* longest time an attempt is watched, in ticks
MaxRetryDelay == 2    \* largest configured retry delay
MaxNow == 2           \* latest reading of the cache's clock
MaxTtl == 1           \* largest explicit time-to-live of a cache entry
MaxHandlers == 2      \* interceptors registered on a client, both phases
MaxLines == 3         \* lines of a streamed body

\* ------------------------------------------------------ program constants
DefaultRetryDelay == 1000
ServerErrorFloor == 500
Undefined == -1       \* an optional config field that was not supplied
DefaultTtl == 300000  \* HttpCache.set: ttl = 5 * 60 * 1000

Reqs == 1..NumReqs
Statuses == {200, 404, 500}

AbortError == "AbortError"      \* fetch aborted through an AbortController
TimeoutError == "TimeoutError"  \* fetch aborted through AbortSignal.timeout
TypeError == "TypeError"        \* fetch failed at network level
StatusError == "Error"          \* thrown by retryRequest on a retried 5xx
SyntaxError == "SyntaxError"    \* response.json() on a malformed body

VARIABLES
    concurrency,       \* this.defaults.concurrency
    cfg,               \* the config each request reaches dispatchRequest with
    callers,           \* the requests the callers issue in this run
    server,            \* the statuses the transport answers with in this run
    faults,            \* the faults that can happen in this run
    pc,                \* where each request is in dispatchRequest/retryRequest
    activeRequests,    \* this.activeRequests
    concurrencyQueue,  \* this.concurrencyQueue (resolve callbacks, by request)
    resumeQ,           \* woken waiters whose continuation has not run yet
    attempt,           \* retryRequest's local `attempt`
    elapsed,           \* ticks since the current fetch started
    userAborted,       \* config.signal.aborted
    ctrlAborted,       \* controller.signal.aborted
    response,          \* status of the Response retryRequest returned
    result,            \* how dispatchRequest settled
    calls,             \* history: number of fetch calls of the request
    settled,           \* history: number of fetch calls that have settled
    failed,            \* history: fetch calls that ended in a retryable failure
    lastOutcome,       \* history: how the latest settled fetch call ended
    delays,            \* history: the backoff delays waited, in order
    waited,            \* history: the request was put in concurrencyQueue
    signalled,         \* history: where the request was when its signal fired
    target,            \* config.method and config.url of each request
    requestId,         \* dispatchRequest's local `requestId`
    pendingRequests,   \* this.pendingRequests, as pairs <<id, controller>>
    store,             \* HttpCache: this.cache, key -> {data, expiry}
    now,               \* Date.now()
    lastSet,           \* history: the latest set of each key, if still in force
    lastOp,            \* history: the latest cache operation and what it saw
    derived,           \* two configs and the cache keys generateKey gave them
    merged,            \* defaults, a request config and request()'s mergedConfig
    reqHandlers,       \* interceptors.request.handlers
    resHandlers,       \* interceptors.response.handlers
    defaults,          \* this.defaults, with the objects it refers to
    defaults0,         \* history: this.defaults as the constructor got it
    last,              \* history: the latest request and what happened to it
    chunks,            \* the chunks reader.read() has still to deliver
    buffer,            \* streamJson's `buffer`
    lines,             \* the lines of the current chunk not yet looked at
    out,               \* the values streamJson has yielded, in order
    phase,             \* where the generator is suspended, or how it ended
    released,          \* number of calls of reader.releaseLock()
    written            \* history: the body the server wrote and how it was cut

dispatchVars ==
    <<concurrency, cfg, callers, server, faults, pc, activeRequests,
      concurrencyQueue, resumeQ, attempt, elapsed, userAborted, ctrlAborted,
      response, result, calls, settled, failed, lastOutcome, delays, waited,
      signalled, target, requestId, pendingRequests>>

cacheVars == <<store, now, lastSet, lastOp>>

fnVars == <<derived, merged>>

chainVars == <<reqHandlers, resHandlers, defaults, defaults0, last>>

streamVars == <<chunks, buffer, lines, out, phase, released, written>>

vars == <<dispatchVars, cacheVars, fnVars, chainVars, streamVars>>

\* what the cache's actions leave alone
beyondCache == <<dispatchVars, fnVars, chainVars, streamVars>>

\* --------------------------------------------------------------- helpers

\* JavaScript truthiness of an optional number
Truthy(x) == x # Undefined /\ x # 0

RECURSIVE Pow2(_)
Pow2(n) == IF n <= 0 THEN 1 ELSE 2 * Pow2(n - 1)

Pending == [kind |-> "pending", status |-> 0, name |-> ""]
Envelope(s) == [kind |-> "envelope", status |-> s, name |-> ""]
Failure(n) == [kind |-> "error", status |-> 0, name |-> n]
Responded(s) == [kind |-> "response", status |-> s, name |-> ""]

NoSignal == [at |-> "never", calls |-> 0, delays |-> 0]

\* the request is past the gate: activeRequests++ has run for it
HasPassed(r) == pc[r] \in {"fetching", "delaying", "reading", "done"}

\* ------------------------------------------------------------ the gate

\* (mutant) a limit of zero is a limit
GateClosedAtZero == concurrency # Undefined /\ activeRequests >= concurrency

\* dispatchRequest: the condition under which a caller is queued
GateClosed == Truthy(concurrency) /\ activeRequests >= concurrency

\* (mutant) processQueue consulted before the slot is given back
CanWakeBeforeRelease(active) ==
    /\ Len(concurrencyQueue) > 0
    /\ (~Truthy(concurrency) \/ active + 1 < concurrency)

\* processQueue: the condition under which the head waiter is woken, for the
\* active count `active` left by the release
CanWake(active) ==
    /\ Len(concurrencyQueue) > 0
    /\ (~Truthy(concurrency) \/ active < concurrency)

\* (mutant) the slot is given back only by a request that got its envelope
ReleaseOnSuccess(active, res) ==
    IF res.kind = "envelope" THEN active - 1 ELSE active

\* finally: this.activeRequests--, however dispatchRequest settled
Release(active, res) == active - 1

\* ------------------------------------------------- the pending calls

NoTarget == [method |-> "", url |-> 0]

\* the requests of a run are GETs, to paths that are numbered
Target(u) == [method |-> "GET", url |-> u]

NoId == [method |-> "", url |-> 0, at |-> Undefined]

\* getRequestId: `${config.method}-${config.url}-${Date.now()}`
GetRequestId(t, at) == [method |-> t.method, url |-> t.url, at |-> at]

\* Map.prototype.set: the entry of the key is replaced if there is one.
\* The controller of a request is named by the request.
MapSet(m, id, r) == {e \in m : e[1] # id} \cup {<<id, r>>}

\* Map.prototype.delete
MapDelete(m, id) == {e \in m : e[1] # id}

\* ------------------------------------------------------ the retry loop

\* const retries = config.retry || 0
Retries(r) == IF Truthy(cfg[r].retry) THEN cfg[r].retry ELSE 0

\* const retryDelay = config.retryDelay || 1000
RetryDelay(r) ==
    IF Truthy(cfg[r].retryDelay) THEN cfg[r].retryDelay ELSE DefaultRetryDelay

\* retryDelay * Math.pow(2, attempt - 1), for the value of attempt after ++
Backoff(r, n) == RetryDelay(r) * Pow2(n - 1)

\* response.ok
Ok(status) == status >= 200 /\ status <= 299

\* (mutant) the throw on a 5xx forgets the remaining budget
ThrowsOnStatusAlways(status, att, retries) ==
    ~Ok(status) /\ status >= ServerErrorFloor

\* (mutant) every response that is not ok is retried
ThrowsOnStatusNotOk(status, att, retries) ==
    ~Ok(status) /\ att < retries

\* retryRequest throws on a response instead of returning it
ThrowsOnStatus(status, att, retries) ==
    ~Ok(status) /\ status >= ServerErrorFloor /\ att < retries

\* (mutant) the budget check is off by one
RethrowsOffByOne(name, att, retries) == att > retries \/ name = AbortError

\* (mutant) an abort is retried like any other failure
RethrowsIgnoringAbort(name, att, retries) == att >= retries

\* the catch block rethrows instead of retrying
Rethrows(name, att, retries) == att >= retries \/ name = AbortError

\* init.signal: which signal the fetch of an attempt listens to
FetchSignal(r) ==
    IF Truthy(cfg[r].timeout)
    THEN IF cfg[r].hasSignal THEN "user" ELSE "timeout"
    ELSE "controller"

\* the signal handed to the running fetch is aborted
FetchSignalAborted(r) ==
    \/ FetchSignal(r) = "user" /\ userAborted[r]
    \/ FetchSignal(r) = "controller" /\ ctrlAborted[r]

\* ------------------------------------------------------------ the cache

Keys == {"k1", "k2"}

\* response bodies: the empty text, and two texts that are not empty
Values == {"", "a", "b"}

Null == "<null>"

\* JavaScript truthiness of a cached value
JsTruthy(v) == v # Null /\ v # ""

\* a key the map does not hold
NoEntry == [data |-> Null, expiry |-> Undefined]

NoSet == [data |-> Null, at |-> Undefined, ttl |-> Undefined]

\* what an operation gave back to its caller
Returned(kind, status, text, v) ==
    [kind |-> kind, status |-> status, statusText |-> text, data |-> v]

NoOp ==
    [op |-> "none", key |-> "", found |-> NoEntry,
     ret |-> Returned("none", 0, "", Null), phases |-> {}, wrote |-> ""]

\* set(key, data, ttl = 5 * 60 * 1000): the default applies to undefined only
Ttl(t) == IF t = Undefined THEN DefaultTtl ELSE t

\* (mutant) an entry is expired from its expiry time on
ExpiredAtExpiry(entry, at) == at >= entry.expiry

\* get: Date.now() > entry.expiry
Expired(entry, at) == at > entry.expiry

\* set: this.cache.set(key, {data, expiry: Date.now() + ttl})
CacheSet(s, k, v, t, at) ==
    [s EXCEPT ![k] = [data |-> v, expiry |-> at + Ttl(t)]]

\* get: what it returns
CacheGet(s, k, at) ==
    IF s[k] = NoEntry THEN Null
    ELSE IF Expired(s[k], at) THEN Null
    ELSE s[k].data

\* (mutant) a lookup sweeps every expired entry out of the map
AfterGetSweeping(s, k, at) ==
    [j \in DOMAIN s |->
        IF s[j] # NoEntry /\ Expired(s[j], at) THEN NoEntry ELSE s[j]]

\* get: the map it leaves, an expired entry being deleted
AfterGet(s, k, at) ==
    IF s[k] # NoEntry /\ Expired(s[k], at) THEN [s EXCEPT ![k] = NoEntry]
    ELSE s

\* -------------------------------------------------------- the cache key

\* an object is the sequence of its members <<name, value>> in the order in
\* which they were inserted
Members == {<<"a", "1">>, <<"a", "2">>, <<"b", "1">>}

Objects ==
    {<<>>} \cup {<<m>> : m \in Members}
    \cup {<<p[1], p[2]>> : p \in {q \in Members \X Members : q[1][1] # q[2][1]}}

\* a field that holds an object, or is undefined
NoObject == [defined |-> FALSE, members |-> <<>>]
Obj(o) == [defined |-> TRUE, members |-> o]

KeyConfigs ==
    [url : {"/x", "/y"},
     method : {"GET", "POST"},
     params : {NoObject} \cup {Obj(o) : o \in Objects},
     data : {NoObject} \cup
            {Obj(o) : o \in {x \in Objects : \A i \in DOMAIN x : x[i][2] = "1"}}]

\* JSON.stringify of the members of an object, in insertion order
RECURSIVE StringifyMembers(_)
StringifyMembers(o) ==
    IF o = <<>> THEN <<>>
    ELSE <<o[1][1], ":", o[1][2]>>
         \o (IF Len(o) > 1 THEN <<",">> ELSE <<>>)
         \o StringifyMembers(Tail(o))

\* JSON.stringify of a member `name` of the outer object, which is left out
\* when its value is undefined
StringifyField(name, x) ==
    IF x.defined
    THEN <<",", name, ":", "{">> \o StringifyMembers(x.members) \o <<"}">>
    ELSE <<>>

\* generateKey: JSON.stringify({url, method, params, data})
GenerateKey(c) ==
    <<"{", "url", ":", c.url, ",", "method", ":", c.method>>
    \o StringifyField("params", c.params)
    \o StringifyField("data", c.data)
    \o <<"}">>

\* ------------------------------------------------------ the config merge

Absent == "<absent>"        \* the object has no such key
Undef == "<undefined>"      \* the key is there and its value is undefined

MergeFields == {"timeout", "params", "data"}
HeaderNames == {"h1", "h2"}

DefaultConfigs ==
    [fields : [MergeFields -> {Absent, "d"}],
     headers : [HeaderNames -> {Absent, "d"}]]

RequestConfigs ==
    [fields : [MergeFields -> {Absent, Undef, "r"}],
     headers : [HeaderNames -> {Absent, Undef, "r"}]]

\* {...base, ...over}: every key of `over` wins, whatever its value
Spread(base, over) ==
    [f \in DOMAIN base |-> IF over[f] # Absent THEN over[f] ELSE base[f]]

\* request: {...defaults, ...config, headers: {...defaults.headers,
\* ...config.headers}}
MergeConfig(d, c) ==
    [fields |-> Spread(d.fields, c.fields),
     headers |-> Spread(d.headers, c.headers)]

\* post(url, data, config): {...config, method: 'POST', url, data}
PostConfig(data, c) == [c EXCEPT !.fields["data"] = data]

NoKeys == [op |-> "none"]
NoMerge == [op |-> "none"]

FnStart == derived = NoKeys /\ merged = NoMerge

\* ------------------------------------------------ the interceptor chains

\* a slot of `handlers` whose interceptor was ejected
NullHandler == [fulfilled |-> "null", rejected |-> "null"]

\* The interceptors a caller registers, by what their two functions do;
\* "none" is a function that was not given. On a request config: "tag"
\* returns a copy of the config marked with the interceptor's id, "mutate"
\* sets a header and a query parameter on the config it received and
\* returns it, "throw" raises; "recover" returns a config of its own.
RequestInterceptors ==
    [fulfilled : {"none", "tag", "mutate", "throw"},
     rejected : {"none", "recover"}]

\* On a response: "tag" returns a copy of the envelope marked with the
\* interceptor's id; "rethrow" raises the error it received, "throw" raises
\* an error of its own, "recover" returns a value.
ResponseInterceptors ==
    [fulfilled : {"none", "tag"},
     rejected : {"none", "rethrow", "throw", "recover"}]

\* the slots 1..Len(hs) of a handlers array, in order
Slots(hs) == [i \in 1..Len(hs) |-> i]

\* (mutant) the handlers are visited from the last to the first
ForEachBackwards(hs) ==
    LET live == SelectSeq(Slots(hs), LAMBDA i : hs[i] # NullHandler)
    IN  [i \in 1..Len(live) |-> live[Len(live) + 1 - i]]

\* forEach: the slots that hold an interceptor, in order of registration
ForEach(hs) == SelectSeq(Slots(hs), LAMBDA i : hs[i] # NullHandler)

NoError == [name |-> "", by |-> -1]
Thrown(id) == [name |-> "InterceptorError", by |-> id]
Raised(name) == [name |-> name, by |-> -1]

NoChainConfig ==
    [fields |-> [f \in MergeFields |-> Absent],
     headers |-> [h \in HeaderNames |-> Absent],
     trace |-> <<>>]

RecoveredConfig(id) == [NoChainConfig EXCEPT !.trace = <<<<"recovered", id>>>>]

\* the field refers to an object
IsObject(v) == v # Absent /\ v # Undef

\* an object after an interceptor has set a member on it
Mutate(v) == IF v = "d" THEN "d+i" ELSE IF v = "r" THEN "r+i" ELSE v

\* what a promise of dispatchRequest settles with
Result(kind, by, config, trace) ==
    [kind |-> kind, by |-> by, config |-> config, trace |-> trace]

EnvelopeOf(config) == Result("envelope", -1, config, <<>>)
RecoveredValue(id) == Result("value", id, NoChainConfig, <<>>)
NoResult == Result("none", -1, NoChainConfig, <<>>)

\* request: chain.then(interceptor.fulfilled || ((c) => c),
\* interceptor.rejected) for the interceptor of slot i, whose id is i - 1.
\* p.shared are the fields of the config that refer to an object of the
\* defaults, p.dflt are the defaults.
RequestThen(p, i, h) ==
    IF p.ok
    THEN CASE h.fulfilled = "tag" ->
                [p EXCEPT !.cfg.trace = Append(@, <<"tag", i - 1>>)]
           [] h.fulfilled = "mutate" ->
                [p EXCEPT !.cfg.headers["h2"] = "i",
                          !.cfg.fields["params"] = Mutate(@),
                          !.dflt.fields["params"] =
                              IF "params" \in p.shared THEN Mutate(@) ELSE @]
           [] h.fulfilled = "throw" ->
                [p EXCEPT !.ok = FALSE, !.err = Thrown(i - 1),
                          !.threw = Append(@, i - 1)]
           [] OTHER -> p
    ELSE IF h.rejected = "recover"
         THEN [p EXCEPT !.ok = TRUE, !.cfg = RecoveredConfig(i - 1),
                        !.err = NoError, !.shared = {}]
         ELSE p

RECURSIVE RequestChain(_, _, _)
RequestChain(hs, slots, p) ==
    IF slots = <<>> THEN p
    ELSE RequestChain(hs, Tail(slots),
                      RequestThen(p, Head(slots), hs[Head(slots)]))

\* a failure transform of slot i is handed the rejection of p
Rejected(p, i, h) ==
    CASE h.rejected = "recover" ->
            [p EXCEPT !.ok = TRUE, !.val = RecoveredValue(i - 1),
                      !.err = NoError,
                      !.offered = Append(@, <<i - 1, p.err>>)]
      [] h.rejected = "throw" ->
            [p EXCEPT !.err = Thrown(i - 1),
                      !.offered = Append(@, <<i - 1, p.err>>)]
      [] h.rejected = "rethrow" ->
            [p EXCEPT !.offered = Append(@, <<i - 1, p.err>>)]
      [] OTHER -> p

\* dispatchRequest, try block: result.then(interceptor.fulfilled ||
\* ((r) => r), interceptor.rejected)
ResponseThen(p, i, h) ==
    IF p.ok
    THEN IF h.fulfilled = "tag"
         THEN [p EXCEPT !.val.trace = Append(@, <<"tag", i - 1>>)]
         ELSE p
    ELSE Rejected(p, i, h)

\* (mutant) a failure transform is called although an earlier one has
\* returned a value
ResponseCatchAlways(p, i, h) ==
    Rejected([p EXCEPT !.ok = FALSE], i, h)

\* dispatchRequest, catch block: chain.catch(interceptor.rejected ||
\* ((e) => Promise.reject(e)))
ResponseCatch(p, i, h) == IF p.ok THEN p ELSE Rejected(p, i, h)

RECURSIVE SuccessChain(_, _, _)
SuccessChain(hs, slots, p) ==
    IF slots = <<>> THEN p
    ELSE SuccessChain(hs, Tail(slots),
                      ResponseThen(p, Head(slots), hs[Head(slots)]))

RECURSIVE FailureChain(_, _, _)
FailureChain(hs, slots, p) ==
    IF slots = <<>> THEN p
    ELSE FailureChain(hs, Tail(slots),
                      ResponseCatch(p, Head(slots), hs[Head(slots)]))

\* the defaults a client is constructed with, and the configs it is asked
\* to execute
ChainDefaults ==
    {d \in DefaultConfigs :
        /\ d.headers["h1"] = "d"
        /\ d.headers["h2"] = Absent
        /\ d.fields["timeout"] = Absent
        /\ d.fields["data"] = Absent}

ChainRequests ==
    {c \in RequestConfigs :
        /\ c.headers = [h \in HeaderNames |-> Absent]
        /\ c.fields["timeout"] = Absent
        /\ c.fields["data"] = Absent
        /\ c.fields["params"] # Undef}

NoRequest ==
    [op |-> "none", merged |-> NoChainConfig, threw |-> <<>>,
     passedGate |-> FALSE, fetched |-> FALSE, atTransport |-> NoChainConfig,
     original |-> NoError, offered |-> <<>>, value |-> NoResult,
     error |-> NoError, handle |-> -1]

\* a client without interceptors, on which nothing is executed
ChainIdle ==
    /\ reqHandlers = <<>>
    /\ resHandlers = <<>>
    /\ defaults = [fields |-> [f \in MergeFields |-> Absent],
                   headers |-> [h \in HeaderNames |-> Absent]]
    /\ defaults0 = defaults
    /\ last = NoRequest

\* new HttpClient(d)
ChainStart ==
    /\ reqHandlers = <<>>
    /\ resHandlers = <<>>
    /\ defaults \in ChainDefaults
    /\ defaults0 = defaults
    /\ last = NoRequest

\* ---------------------------------------------------- the stream decoder

\* The text of a body is a sequence of symbols: the line feed, the carriage
\* return, the event-data marker "data: ", the digits 1 and 2 (any run of
\* digits is a JSON number), a character no JSON text contains, and the
\* text "[DONE]".
NL == "\\n"
CR == "\\r"
Marker == "data: "
Sentinel == "[DONE]"
Digits == {"1", "2"}

\* the lines a server writes
LineKinds ==
    {<<>>, <<Marker, "1">>, <<"2">>, <<Marker, "x">>, <<"x">>,
     <<Marker, Sentinel>>, <<Sentinel>>}

RECURSIVE Flatten(_)
Flatten(ss) == IF ss = <<>> THEN <<>> ELSE Head(ss) \o Flatten(Tail(ss))

\* the body made of the lines ls, each ended by the line break eol, the
\* last one only if `terminated`
BodyText(ls, eol, terminated) ==
    Flatten([i \in 1..Len(ls) |->
                IF i < Len(ls) \/ terminated THEN ls[i] \o eol ELSE ls[i]])

\* the body cut into chunks of n symbols
RECURSIVE ChunksOf(_, _)
ChunksOf(text, n) ==
    IF Len(text) <= n THEN IF text = <<>> THEN <<>> ELSE <<text>>
    ELSE <<SubSeq(text, 1, n)>> \o ChunksOf(SubSeq(text, n + 1, Len(text)), n)

StripCR(seg) ==
    IF seg # <<>> /\ seg[Len(seg)] = CR THEN SubSeq(seg, 1, Len(seg) - 1)
    ELSE seg

\* text.split(/\r?\n/), `seg` being the segment read so far
RECURSIVE SplitFrom(_, _)
SplitFrom(text, seg) ==
    IF text = <<>> THEN <<seg>>
    ELSE IF Head(text) = NL
         THEN <<StripCR(seg)>> \o SplitFrom(Tail(text), <<>>)
         ELSE SplitFrom(Tail(text), Append(seg, Head(text)))

Split(text) == SplitFrom(text, <<>>)

\* String.prototype.trim
RECURSIVE TrimStart(_)
TrimStart(t) ==
    IF t # <<>> /\ Head(t) \in {CR, NL} THEN TrimStart(Tail(t)) ELSE t

RECURSIVE TrimEnd(_)
TrimEnd(t) ==
    IF t # <<>> /\ t[Len(t)] \in {CR, NL}
    THEN TrimEnd(SubSeq(t, 1, Len(t) - 1))
    ELSE t

Trim(t) == TrimEnd(TrimStart(t))

\* JSON.parse(t) does not throw
Parses(t) ==
    LET u == Trim(t) IN u # <<>> /\ \A i \in DOMAIN u : u[i] \in Digits

\* JSON.parse(t), for a text that parses: the number the digits write
RECURSIVE NumberOf(_)
NumberOf(u) ==
    IF u = <<>> THEN 0
    ELSE 10 * NumberOf(SubSeq(u, 1, Len(u) - 1))
         + (IF u[Len(u)] = "1" THEN 1 ELSE 2)

JsonParse(t) == NumberOf(Trim(t))

Skip == [kind |-> "skip", value |-> 0]
Emit(v) == [kind |-> "emit", value |-> v]
Stop == [kind |-> "stop", value |-> 0]

\* try { yield JSON.parse(t) } catch (e) {}
YieldParsed(t) == IF Parses(t) THEN Emit(JsonParse(t)) ELSE Skip

\* (mutant) the end sentinel is a payload like any other
HandleLineWithoutSentinel(line) ==
    LET trimmed == Trim(line) IN
    IF trimmed = <<>> THEN Skip
    ELSE IF Head(trimmed) = Marker THEN YieldParsed(Tail(trimmed))
    ELSE YieldParsed(trimmed)

\* (mutant) a payload that does not parse ends the decoding
HandleLineStoppingOnFailure(line) ==
    LET trimmed == Trim(line) IN
    IF trimmed = <<>> THEN Skip
    ELSE IF Head(trimmed) = Marker
         THEN IF Parses(Tail(trimmed)) THEN Emit(JsonParse(Tail(trimmed)))
              ELSE Stop
    ELSE IF Parses(trimmed) THEN Emit(JsonParse(trimmed)) ELSE Stop

\* the body of `for (const line of lines)` for one line
HandleLine(line) ==
    LET trimmed == Trim(line) IN
    IF trimmed = <<>> THEN Skip
    ELSE IF Head(trimmed) = Marker
         THEN IF Tail(trimmed) = <<Sentinel>> THEN Stop
              ELSE YieldParsed(Tail(trimmed))
    ELSE YieldParsed(trimmed)

\* what is left of the buffer once the stream has ended
HandleResidue(buf) ==
    LET trimmed == Trim(buf) IN
    IF trimmed = <<>> THEN Skip
    ELSE IF Head(trimmed) = Marker THEN YieldParsed(Tail(trimmed))
    ELSE YieldParsed(trimmed)

\* (mutant) what follows the last line break of a chunk is dropped
RetainedNothing(parts) == <<>>

\* lines.pop() || '': the last segment stays in the buffer
Retained(parts) == parts[Len(parts)]

\* (mutant) the reader is released where the generator completes, and not
\* when an error leaves it
ReleaseLockUnlessThrown(exit, n) == IF exit = "throw" THEN n ELSE n + 1

\* finally { reader.releaseLock() }: the calls of releaseLock once the try
\* block has been left by `exit`: "end" after the residual pass, "return"
\* at the sentinel, "stop" when the consumer ends the iteration at a yield,
\* "throw" when reader.read() rejects
ReleaseLock(exit, n) == n + 1

\* the loop over the lines, up to its first yield, its return, or its end
RECURSIVE Scan(_)
Scan(ls) ==
    IF ls = <<>> THEN [kind |-> "exhausted", value |-> 0, rest |-> <<>>]
    ELSE LET r == HandleLine(Head(ls)) IN
         IF r.kind = "skip" THEN Scan(Tail(ls))
         ELSE [kind |-> r.kind, value |-> r.value, rest |-> Tail(ls)]

NothingWritten ==
    [lines |-> <<>>, terminated |-> TRUE, text |-> <<>>, cut |-> 0]

\* no stream is decoded
StreamIdle ==
    /\ chunks = <<>>
    /\ buffer = <<>>
    /\ lines = <<>>
    /\ out = <<>>
    /\ phase = "closed"
    /\ released = 0
    /\ written = NothingWritten

RECURSIVE SeqsUpTo(_, _)
SeqsUpTo(S, n) ==
    IF n = 0 THEN {<<>>}
    ELSE LET shorter == SeqsUpTo(S, n - 1)
         IN  shorter \cup {Append(q, x) : q \in shorter, x \in S}

\* streamJson(response) is called on a body of up to MaxLines lines, ended
\* by \n or by \r\n, the last one possibly without its line break, which
\* arrives symbol by symbol, two or three symbols at a time, or whole
StreamStart ==
    /\ \E ls \in SeqsUpTo(LineKinds, MaxLines), eol \in {<<NL>>, <<CR, NL>>},
          terminated \in BOOLEAN, n \in {1, 2, 3, 4 * MaxLines} :
          /\ written = [lines |-> ls, terminated |-> terminated \/ ls = <<>>,
                        text |-> BodyText(ls, eol, terminated), cut |-> n]
          /\ chunks = ChunksOf(BodyText(ls, eol, terminated), n)
    /\ buffer = <<>>
    /\ lines = <<>>
    /\ out = <<>>
    /\ phase = "reading"
    /\ released = 0

\* --------------------------------------------------------------- Init

NoConfig ==
    [retry |-> Undefined, retryDelay |-> Undefined, timeout |-> Undefined,
     hasSignal |-> FALSE]

Configs ==
    [retry : {Undefined} \cup (0..MaxRetry),
     retryDelay : {Undefined} \cup {0, MaxRetryDelay},
     timeout : {Undefined} \cup {0, MaxTimeout},
     hasSignal : BOOLEAN]

\* no request has been issued yet
DispatchStart ==
    /\ pc = [r \in Reqs |-> "idle"]
    /\ activeRequests = 0
    /\ concurrencyQueue = <<>>
    /\ resumeQ = <<>>
    /\ attempt = [r \in Reqs |-> 0]
    /\ elapsed = [r \in Reqs |-> 0]
    /\ userAborted = [r \in Reqs |-> FALSE]
    /\ ctrlAborted = [r \in Reqs |-> FALSE]
    /\ response = [r \in Reqs |-> 0]
    /\ result = [r \in Reqs |-> Pending]
    /\ calls = [r \in Reqs |-> 0]
    /\ settled = [r \in Reqs |-> 0]
    /\ failed = [r \in Reqs |-> 0]
    /\ lastOutcome = [r \in Reqs |-> Pending]
    /\ delays = [r \in Reqs |-> <<>>]
    /\ waited = [r \in Reqs |-> FALSE]
    /\ signalled = [r \in Reqs |-> NoSignal]
    /\ requestId = [r \in Reqs |-> NoId]
    /\ pendingRequests = {}

\* no caller issues a request through the dispatch pipeline
DispatchIdle ==
    /\ concurrency = Undefined
    /\ cfg = [r \in Reqs |-> NoConfig]
    /\ callers = {}
    /\ server = {}
    /\ faults = {}
    /\ target = [r \in Reqs |-> NoTarget]
    /\ DispatchStart

\* HttpCache's constructor: an empty map; nothing has been done to it
CacheStart ==
    /\ store = [k \in Keys |-> NoEntry]
    /\ now = 0
    /\ lastSet = [k \in Keys |-> NoSet]
    /\ lastOp = NoOp

\* Two kinds of run. In the first the client has any concurrency limit (or
\* none) and the callers issue NumReqs requests that set no option, the first
\* of them possibly with a cancellation signal; the server answers 200 and
\* the network may fail. In the second the client has no limit and one
\* request is issued with any combination of retry, retryDelay, timeout and
\* signal; the server answers with any status, the network may fail and a
\* body may be malformed. In both no request enables the cache, the
\* requests go to paths of their own and the clock stands still.
Init ==
    /\ \/ /\ concurrency \in {Undefined} \cup (0..MaxConcurrency)
          /\ callers = Reqs
          /\ server = {200}
          /\ faults = {"network"}
          /\ \E b \in BOOLEAN :
                cfg = [r \in Reqs |->
                          IF r = 1 THEN [NoConfig EXCEPT !.hasSignal = b]
                          ELSE NoConfig]
       \/ /\ concurrency = Undefined
          /\ callers = {1}
          /\ server = Statuses
          /\ faults = {"network", "body"}
          /\ \E c \in Configs :
                cfg = [r \in Reqs |-> IF r = 1 THEN c ELSE NoConfig]
    /\ target = [r \in Reqs |-> Target(r)]
    /\ DispatchStart
    /\ CacheStart
    /\ FnStart
    /\ ChainIdle
    /\ StreamIdle

\* -------------------------------------------------------------- actions

gateVars == <<activeRequests, concurrencyQueue, resumeQ>>
regVars == <<requestId, pendingRequests>>
histVars == <<calls, settled, failed, lastOutcome, delays>>
\* what the dispatch pipeline reads and never writes
envVars ==
    <<concurrency, cfg, callers, server, faults, target, cacheVars, fnVars,
      chainVars, streamVars>>

\* dispatchRequest after the gate: activeRequests++, the controller and its
\* listener, pendingRequests.set, then retryRequest up to its first fetch
EnterAndFetch(r) ==
    /\ activeRequests' = activeRequests + 1
    /\ calls' = [calls EXCEPT ![r] = @ + 1]
    /\ elapsed' = [elapsed EXCEPT ![r] = 0]
    /\ requestId' = [requestId EXCEPT ![r] = GetRequestId(target[r], now)]
    /\ pendingRequests' =
          MapSet(pendingRequests, GetRequestId(target[r], now), r)
    /\ UNCHANGED <<attempt, userAborted, ctrlAborted, response, result,
                   settled, failed, lastOutcome, delays, signalled, envVars>>

\* request() and the start of dispatchRequest: the caller is queued when
\* the gate is closed, and passes it otherwise
Arrive(r) ==
    /\ r \in callers
    /\ pc[r] = "idle"
    /\ IF GateClosed
       THEN /\ concurrencyQueue' = Append(concurrencyQueue, r)
            /\ pc' = [pc EXCEPT ![r] = "queued"]
            /\ waited' = [waited EXCEPT ![r] = TRUE]
            /\ UNCHANGED <<activeRequests, resumeQ, attempt, elapsed,
                           userAborted, ctrlAborted, response, result,
                           histVars, signalled, regVars, envVars>>
       ELSE /\ EnterAndFetch(r)
            /\ pc' = [pc EXCEPT ![r] = "fetching"]
            /\ UNCHANGED <<concurrencyQueue, resumeQ, waited>>

\* the continuation of a woken waiter: it goes on after the await without
\* looking at the gate again
Resume ==
    /\ resumeQ # <<>>
    /\ LET r == Head(resumeQ) IN
        /\ EnterAndFetch(r)
        /\ pc' = [pc EXCEPT ![r] = "fetching"]
        /\ resumeQ' = Tail(resumeQ)
    /\ UNCHANGED <<concurrencyQueue, waited>>

\* the caller signals config.signal; the listener that forwards it to the
\* controller exists only once dispatchRequest has passed the gate
Abort(r) ==
    /\ r \in callers
    /\ cfg[r].hasSignal
    /\ ~userAborted[r]
    /\ pc[r] # "done"
    /\ userAborted' = [userAborted EXCEPT ![r] = TRUE]
    /\ ctrlAborted' = [ctrlAborted EXCEPT ![r] = HasPassed(r)]
    /\ signalled' = [signalled EXCEPT ![r] =
                        [at |-> pc[r], calls |-> calls[r],
                         delays |-> Len(delays[r])]]
    /\ UNCHANGED <<pc, gateVars, attempt, elapsed, response, result,
                   histVars, waited, regVars, envVars>>

\* time passes for a running fetch; a fetch that listens to the timeout
\* signal does not outlive it
Tick(r) ==
    /\ pc[r] = "fetching"
    /\ Truthy(cfg[r].timeout)
    /\ ~FetchSignalAborted(r)
    /\ elapsed[r] < MaxElapsed
    /\ FetchSignal(r) = "timeout" => elapsed[r] < cfg[r].timeout
    /\ elapsed' = [elapsed EXCEPT ![r] = @ + 1]
    /\ UNCHANGED <<pc, gateVars, attempt, userAborted, ctrlAborted, response,
                   result, histVars, waited, signalled, regVars, envVars>>

\* the waiter processQueue wakes, for the active count left by a release
Woken(active) ==
    IF CanWake(active) THEN {Head(concurrencyQueue)} ELSE {}

\* dispatchRequest settles with `res`: the finally block releases the
\* slot, deletes the entry of requestId and processQueue wakes the head
\* waiter
Settle(r, res) ==
    /\ result' = [result EXCEPT ![r] = res]
    /\ pendingRequests' = MapDelete(pendingRequests, requestId[r])
    /\ requestId' = [requestId EXCEPT ![r] = NoId]
    /\ activeRequests' = Release(activeRequests, res)
    /\ LET w == Woken(Release(activeRequests, res)) IN
        /\ pc' = [q \in Reqs |-> IF q = r THEN "done"
                                 ELSE IF q \in w THEN "woken" ELSE pc[q]]
        /\ concurrencyQueue' =
              IF w = {} THEN concurrencyQueue ELSE Tail(concurrencyQueue)
        /\ resumeQ' =
              IF w = {} THEN resumeQ
              ELSE Append(resumeQ, Head(concurrencyQueue))

\* the catch block of retryRequest for an error named `name`
Catch(r, name) ==
    IF Rethrows(name, attempt[r], Retries(r))
    THEN /\ Settle(r, Failure(name))
         /\ UNCHANGED <<attempt, delays>>
    ELSE /\ attempt' = [attempt EXCEPT ![r] = @ + 1]
         /\ delays' = [delays EXCEPT ![r] =
                          Append(@, Backoff(r, attempt[r] + 1))]
         /\ pc' = [pc EXCEPT ![r] = "delaying"]
         /\ UNCHANGED <<gateVars, result, regVars>>

\* the fetch resolves with a response of status s
FetchRespond(r, s) ==
    /\ pc[r] = "fetching"
    /\ ~FetchSignalAborted(r)
    /\ settled' = [settled EXCEPT ![r] = @ + 1]
    /\ failed' = [failed EXCEPT ![r] =
                     IF s >= ServerErrorFloor THEN @ + 1 ELSE @]
    /\ lastOutcome' = [lastOutcome EXCEPT ![r] = Responded(s)]
    /\ IF ThrowsOnStatus(s, attempt[r], Retries(r))
       THEN /\ Catch(r, StatusError)
            /\ UNCHANGED response
       ELSE /\ response' = [response EXCEPT ![r] = s]
            /\ pc' = [pc EXCEPT ![r] = "reading"]
            /\ UNCHANGED <<gateVars, attempt, delays, result, regVars>>
    /\ UNCHANGED <<elapsed, userAborted, ctrlAborted, calls, waited,
                   signalled, envVars>>

\* the fetch rejects with the error named `name`
FetchReject(r, name) ==
    /\ settled' = [settled EXCEPT ![r] = @ + 1]
    /\ failed' = [failed EXCEPT ![r] = IF name = AbortError THEN @ ELSE @ + 1]
    /\ lastOutcome' = [lastOutcome EXCEPT ![r] = Failure(name)]
    /\ Catch(r, name)
    /\ UNCHANGED <<elapsed, userAborted, ctrlAborted, response, calls, waited,
                   signalled, envVars>>

\* the transport fails at network level
FetchFail(r) ==
    /\ "network" \in faults
    /\ pc[r] = "fetching"
    /\ ~FetchSignalAborted(r)
    /\ FetchReject(r, TypeError)

\* the signal the fetch listens to was aborted
FetchAborted(r) ==
    /\ pc[r] = "fetching"
    /\ FetchSignalAborted(r)
    /\ FetchReject(r, AbortError)

\* AbortSignal.timeout(config.timeout) fires while the fetch listens to it
FetchTimedOut(r) ==
    /\ pc[r] = "fetching"
    /\ FetchSignal(r) = "timeout"
    /\ elapsed[r] = cfg[r].timeout
    /\ FetchReject(r, TimeoutError)

\* the backoff timer fires: the next iteration of the loop calls fetch
DelayElapsed(r) ==
    /\ pc[r] = "delaying"
    /\ pc' = [pc EXCEPT ![r] = "fetching"]
    /\ calls' = [calls EXCEPT ![r] = @ + 1]
    /\ elapsed' = [elapsed EXCEPT ![r] = 0]
    /\ UNCHANGED <<gateVars, attempt, userAborted, ctrlAborted, response,
                   result, settled, failed, lastOutcome, delays, waited,
                   signalled, regVars, envVars>>

\* the body is read and decoded: the envelope is built
ReadBody(r) ==
    /\ pc[r] = "reading"
    /\ Settle(r, Envelope(response[r]))
    /\ UNCHANGED <<attempt, elapsed, userAborted, ctrlAborted, response,
                   histVars, waited, signalled, envVars>>

\* response.json() rejects on a malformed body
ReadFails(r) ==
    /\ "body" \in faults
    /\ pc[r] = "reading"
    /\ Settle(r, Failure(SyntaxError))
    /\ UNCHANGED <<attempt, elapsed, userAborted, ctrlAborted, response,
                   histVars, waited, signalled, envVars>>

Progress(r) ==
    \/ \E s \in server : FetchRespond(r, s)
    \/ FetchFail(r)
    \/ FetchAborted(r)
    \/ FetchTimedOut(r)
    \/ DelayElapsed(r)
    \/ ReadBody(r)
    \/ ReadFails(r)

Next ==
    \/ \E r \in Reqs : Arrive(r)
    \/ Resume
    \/ \E r \in Reqs : Abort(r)
    \/ \E r \in Reqs : Tick(r)
    \/ \E r \in Reqs : Progress(r)

Spec == Init /\ [][Next]_vars

\* every woken continuation runs, and every request past the gate goes on
\* until dispatchRequest settles
FairSpec ==
    /\ Spec
    /\ WF_vars(Resume)
    /\ \A r \in Reqs : WF_vars(Progress(r))

\* ---------------------------------------------------- the cache's actions

Ttls == {Undefined} \cup (0..MaxTtl)

\* (mutant) any cached value that is not null is a hit
IsHitUnlessNull(cachedData) == cachedData # Null

\* request(): if (cachedData)
IsHit(cachedData) == JsTruthy(cachedData)

\* the envelope request() makes up for a cache hit; headers: new Headers()
CachedEnvelope(v) == Returned("envelope", 200, "OK (Cached)", v)

\* the envelope dispatchRequest builds from a response with body v
FreshEnvelope(v) == Returned("envelope", 200, "OK", v)

\* the phases a request goes through when the cache does not answer it
AllPhases == {"requestChain", "gate", "transport", "responseChain"}

\* what the latest get or request saw and the key it wrote, kept until the
\* next operation or until the clock advances
Observed(op, k, found, ret, phases, wrote) ==
    [op |-> op, key |-> k, found |-> found, ret |-> ret, phases |-> phases,
     wrote |-> wrote]

\* What decides the cache key of a request config: its cacheKey, and the
\* key generateKey derives from its url, method, params and data. The
\* callers' configs derive "k2" and have the cacheKey "k1" or none.
KeyedConfigs == [cacheKey : {Undef, "k1"}, generated : {"k2"}]

\* config.cacheKey || this.cache.generateKey(config)
CacheKeyOf(c) == IF c.cacheKey # Undef THEN c.cacheKey ELSE c.generated

\* what the request interceptors do to the config: nothing that bears on
\* the key, or they return a config with the cacheKey "k2", or one with
\* another url, params or data, which derives "k1"
Interceptions == {"none", "cacheKey", "url"}

Intercepted(c, how) ==
    CASE how = "cacheKey" -> [c EXCEPT !.cacheKey = "k2"]
      [] how = "url" -> [c EXCEPT !.generated = "k1"]
      [] OTHER -> c

\* cache.set(k, v, t)
Set(k, v, t) ==
    /\ store' = CacheSet(store, k, v, t, now)
    /\ lastSet' = [lastSet EXCEPT ![k] = [data |-> v, at |-> now, ttl |-> t]]
    /\ lastOp' = NoOp
    /\ UNCHANGED <<now, beyondCache>>

\* cache.get(k)
Get(k) ==
    /\ store' = AfterGet(store, k, now)
    /\ lastOp' = Observed("get", k, NoEntry,
                           Returned("value", 0, "", CacheGet(store, k, now)),
                           {}, "")
    /\ UNCHANGED <<now, lastSet, beyondCache>>

\* cache.delete(k)
Delete(k) ==
    /\ store' = [store EXCEPT ![k] = NoEntry]
    /\ lastSet' = [lastSet EXCEPT ![k] = NoSet]
    /\ lastOp' = NoOp
    /\ UNCHANGED <<now, beyondCache>>

\* cache.clear()
Clear ==
    /\ store' = [k \in Keys |-> NoEntry]
    /\ lastSet' = [k \in Keys |-> NoSet]
    /\ lastOp' = NoOp
    /\ UNCHANGED <<now, beyondCache>>

\* the clock advances
ClockTick ==
    /\ now < MaxNow
    /\ now' = now + 1
    /\ lastOp' = NoOp
    /\ UNCHANGED <<store, lastSet, beyondCache>>

\* request({cache: true, cacheTime: t, ...c}): answered from the cache
\* under the key of the merged config, or sent through the interceptors,
\* which hand the config `sent` to dispatchRequest, the gate and the
\* transport, a response body being written to the cache under the key of
\* `sent`
CachedRequest(c, t, sent) ==
    LET k == CacheKeyOf(c)
        cachedData == CacheGet(store, k, now)
        looked == AfterGet(store, k, now)
        w == CacheKeyOf(sent)
    IN  /\ IF IsHit(cachedData)
           THEN /\ lastOp' = Observed("request", k, store[k],
                                       CachedEnvelope(cachedData), {}, "")
                /\ store' = looked
                /\ UNCHANGED lastSet
           ELSE \/ \E v \in Values :
                     /\ lastOp' = Observed("request", k, store[k],
                                            FreshEnvelope(v), AllPhases, w)
                     /\ store' = CacheSet(looked, w, v, t, now)
                     /\ lastSet' = [lastSet EXCEPT ![w] =
                                       [data |-> v, at |-> now, ttl |-> t]]
                \/ /\ lastOp' = Observed("request", k, store[k],
                                           Returned("error", 0, "", Null),
                                           AllPhases \ {"responseChain"}, "")
                   /\ store' = looked
                   /\ UNCHANGED lastSet
        /\ UNCHANGED <<now, beyondCache>>

CacheNext ==
    \/ \E k \in Keys, v \in Values, t \in Ttls : Set(k, v, t)
    \/ \E k \in Keys : Get(k)
    \/ \E k \in Keys : Delete(k)
    \/ Clear
    \/ ClockTick
    \/ \E c \in KeyedConfigs, t \in Ttls, how \in Interceptions :
          CachedRequest(c, t, Intercepted(c, how))

CacheInit == DispatchIdle /\ CacheStart /\ FnStart /\ ChainIdle /\ StreamIdle

CacheSpec == CacheInit /\ [][CacheNext]_vars

\* the cache used on its own, through its methods
HttpCacheNext ==
    \/ \E k \in Keys, v \in Values, t \in Ttls : Set(k, v, t)
    \/ \E k \in Keys : Get(k)
    \/ \E k \in Keys : Delete(k)
    \/ Clear
    \/ ClockTick

HttpCacheSpec == CacheInit /\ [][HttpCacheNext]_vars

\* ------------------------------------------ the pending calls over time

\* The callers issue NumReqs requests that set no option, the first to
\* path 1 and each of the others to path 1 or to path 2, on a client with
\* no concurrency limit or with a limit of 1; the server answers 200 and
\* the network may fail.
RegistryInit ==
    /\ concurrency \in {Undefined, 1}
    /\ callers = Reqs
    /\ server = {200}
    /\ faults = {"network"}
    /\ cfg = [r \in Reqs |-> NoConfig]
    /\ target \in {t \in [Reqs -> {Target(1), Target(2)}] : t[1] = Target(1)}
    /\ DispatchStart
    /\ CacheStart
    /\ FnStart
    /\ ChainIdle
    /\ StreamIdle

\* the requests run while the clock advances
RegistryNext ==
    \/ \E r \in Reqs : Arrive(r)
    \/ Resume
    \/ \E r \in Reqs, st \in server : FetchRespond(r, st)
    \/ \E r \in Reqs : FetchFail(r)
    \/ \E r \in Reqs : ReadBody(r)
    \/ ClockTick

RegistrySpec == RegistryInit /\ [][RegistryNext]_vars

\* --------------------------------------------- the functions, applied

\* generateKey is applied to two request configs (each run applies one
\* function, once)
GenerateKeys ==
    /\ FnStart
    /\ \E a, b \in KeyConfigs :
          derived' = [op |-> "keys", a |-> a, b |-> b,
                      ka |-> GenerateKey(a), kb |-> GenerateKey(b)]
    /\ merged' = NoMerge
    /\ UNCHANGED <<dispatchVars, cacheVars, chainVars, streamVars>>

\* request(c) on a client with defaults d: the merge
MergeRequest ==
    /\ FnStart
    /\ \E d \in DefaultConfigs, c \in RequestConfigs :
          merged' = [op |-> "request", defaults |-> d, config |-> c,
                     merged |-> MergeConfig(d, c)]
    /\ derived' = NoKeys
    /\ UNCHANGED <<dispatchVars, cacheVars, chainVars, streamVars>>

\* post(url, data, c) on a client with defaults d: the merge
MergePost ==
    /\ FnStart
    /\ \E d \in DefaultConfigs, c \in RequestConfigs, data \in {Undef, "r"} :
          merged' = [op |-> "post", defaults |-> d,
                     config |-> PostConfig(data, c),
                     merged |-> MergeConfig(d, PostConfig(data, c))]
    /\ derived' = NoKeys
    /\ UNCHANGED <<dispatchVars, cacheVars, chainVars, streamVars>>

FnNext == GenerateKeys \/ MergeRequest \/ MergePost

FnInit == DispatchIdle /\ CacheStart /\ FnStart /\ ChainIdle /\ StreamIdle

FnSpec == FnInit /\ [][FnNext]_vars

\* ------------------------------------------- the interceptors' actions

beyondChain == <<dispatchVars, cacheVars, fnVars, streamVars>>

Registered == Len(reqHandlers) + Len(resHandlers)

\* use: this.handlers.push({fulfilled, rejected})
Use(hs, h) == Append(hs, h)

\* use: return this.handlers.length - 1, what the caller of use is given
Used(hs) == [NoRequest EXCEPT !.op = "use", !.handle = Len(hs) - 1]

\* interceptors.request.use(fulfilled, rejected)
UseRequest(h) ==
    /\ Registered < MaxHandlers
    /\ reqHandlers' = Use(reqHandlers, h)
    /\ last' = Used(reqHandlers')
    /\ UNCHANGED <<resHandlers, defaults, defaults0, beyondChain>>

\* interceptors.response.use(fulfilled, rejected)
UseResponse(h) ==
    /\ Registered < MaxHandlers
    /\ resHandlers' = Use(resHandlers, h)
    /\ last' = Used(resHandlers')
    /\ UNCHANGED <<reqHandlers, defaults, defaults0, beyondChain>>

\* (mutant) the slot is cut out of the array
EjectSplicing(hs, id) ==
    IF id + 1 \in DOMAIN hs
    THEN SubSeq(hs, 1, id) \o SubSeq(hs, id + 2, Len(hs))
    ELSE hs

\* eject(id): if (this.handlers[id]) this.handlers[id] = null; the element
\* of an id the array does not have is undefined, and null is falsy
Eject(hs, id) ==
    IF id + 1 \in DOMAIN hs /\ hs[id + 1] # NullHandler
    THEN [hs EXCEPT ![id + 1] = NullHandler]
    ELSE hs

\* the ids a caller ejects: those use has returned, and one it never has
EjectIds == 0..MaxHandlers

\* interceptors.request.eject(id)
EjectRequest(id) ==
    /\ reqHandlers' = Eject(reqHandlers, id)
    /\ last' = NoRequest
    /\ UNCHANGED <<resHandlers, defaults, defaults0, beyondChain>>

\* interceptors.response.eject(id)
EjectResponse(id) ==
    /\ resHandlers' = Eject(resHandlers, id)
    /\ last' = NoRequest
    /\ UNCHANGED <<reqHandlers, defaults, defaults0, beyondChain>>

Outcomes == {"ok", "network", "abort", "body"}

ErrorOf(outcome) ==
    CASE outcome = "network" -> Raised(TypeError)
      [] outcome = "abort" -> Raised(AbortError)
      [] outcome = "body" -> Raised(SyntaxError)
      [] OTHER -> NoError

\* request(c), the transport and the decoding of the body ending in
\* `outcome`: the merge, the chain of the request interceptors, and, when
\* that chain fulfils, dispatchRequest with the chain of the response
\* interceptors over the envelope or over the error
Execute(c, outcome) ==
    LET m == MergeConfig(defaults, c)
        mergedConfig == [fields |-> m.fields, headers |-> m.headers,
                         trace |-> <<>>]
        start == [ok |-> TRUE, cfg |-> mergedConfig, err |-> NoError,
                  shared |-> {f \in MergeFields :
                                 /\ c.fields[f] = Absent
                                 /\ IsObject(defaults.fields[f])},
                  dflt |-> defaults, threw |-> <<>>]
        sent == RequestChain(reqHandlers, ForEach(reqHandlers), start)
        got == [ok |-> outcome = "ok",
                val |-> IF outcome = "ok" THEN EnvelopeOf(sent.cfg)
                        ELSE NoResult,
                err |-> ErrorOf(outcome), offered |-> <<>>]
        done == IF got.ok
                THEN SuccessChain(resHandlers, ForEach(resHandlers), got)
                ELSE FailureChain(resHandlers, ForEach(resHandlers), got)
    IN  /\ defaults' = sent.dflt
        /\ last' =
              IF sent.ok
              THEN [op |-> "request", merged |-> mergedConfig,
                    threw |-> sent.threw, passedGate |-> TRUE,
                    fetched |-> TRUE, atTransport |-> sent.cfg,
                    original |-> got.err, offered |-> done.offered,
                    value |-> IF done.ok THEN done.val ELSE NoResult,
                    error |-> done.err, handle |-> -1]
              ELSE [NoRequest EXCEPT !.op = "request",
                                     !.merged = mergedConfig,
                                     !.threw = sent.threw,
                                     !.error = sent.err]
        /\ UNCHANGED <<reqHandlers, resHandlers, defaults0, beyondChain>>

ChainNext ==
    \/ \E h \in RequestInterceptors : UseRequest(h)
    \/ \E h \in ResponseInterceptors : UseResponse(h)
    \/ \E id \in EjectIds : EjectRequest(id)
    \/ \E id \in EjectIds : EjectResponse(id)
    \/ \E c \in ChainRequests, outcome \in Outcomes : Execute(c, outcome)

ChainInit == DispatchIdle /\ CacheStart /\ FnStart /\ ChainStart /\ StreamIdle

ChainSpec == ChainInit /\ [][ChainNext]_vars

\* the two interceptor managers of a client on which nothing is executed
ManagerNext ==
    \/ \E h \in RequestInterceptors : UseRequest(h)
    \/ \E h \in ResponseInterceptors : UseResponse(h)
    \/ \E id \in EjectIds : EjectRequest(id)
    \/ \E id \in EjectIds : EjectResponse(id)

ManagerSpec == ChainInit /\ [][ManagerNext]_vars

\* --------------------------------------------- the decoder's actions

beyondStream == <<dispatchVars, cacheVars, fnVars, chainVars>>

\* the generator goes on from the result r of the loop over the lines: it
\* yields a value, returns at the sentinel (the finally block releasing the
\* reader), or awaits the next chunk
Advance(r) ==
    CASE r.kind = "emit" ->
            /\ out' = Append(out, r.value)
            /\ lines' = r.rest
            /\ phase' = "yielded"
            /\ UNCHANGED released
      [] r.kind = "stop" ->
            /\ lines' = <<>>
            /\ phase' = "closed"
            /\ released' = ReleaseLock("return", released)
            /\ UNCHANGED out
      [] OTHER ->
            /\ lines' = <<>>
            /\ phase' = "reading"
            /\ UNCHANGED <<out, released>>

\* reader.read() delivers a chunk: it is appended to the buffer, the
\* buffer is split, its last segment is kept and the lines are looked at
ReadChunk ==
    /\ phase = "reading"
    /\ chunks # <<>>
    /\ LET parts == Split(buffer \o Head(chunks)) IN
        /\ buffer' = Retained(parts)
        /\ Advance(Scan(SubSeq(parts, 1, Len(parts) - 1)))
    /\ chunks' = Tail(chunks)
    /\ UNCHANGED <<written, beyondStream>>

\* the consumer asks for the next value after a yield inside the loop
Pull ==
    /\ phase = "yielded"
    /\ Advance(Scan(lines))
    /\ UNCHANGED <<chunks, buffer, written, beyondStream>>

\* reader.read() reports the end of the stream: what is left in the buffer
\* is parsed, and yielded if it parses
ReadDone ==
    /\ phase = "reading"
    /\ chunks = <<>>
    /\ LET r == HandleResidue(buffer) IN
        IF r.kind = "emit"
        THEN /\ out' = Append(out, r.value)
             /\ phase' = "yieldedLast"
             /\ UNCHANGED released
        ELSE /\ phase' = "closed"
             /\ released' = ReleaseLock("end", released)
             /\ UNCHANGED out
    /\ UNCHANGED <<chunks, buffer, lines, written, beyondStream>>

\* the consumer asks for the next value after the last yield: the
\* generator ends and the finally block releases the reader
Finish ==
    /\ phase = "yieldedLast"
    /\ phase' = "closed"
    /\ released' = ReleaseLock("end", released)
    /\ UNCHANGED <<chunks, buffer, lines, out, written, beyondStream>>

\* the consumer ends the iteration at a yield (a break out of for await, or
\* return()): the generator completes there and the finally block runs
Return ==
    /\ phase \in {"yielded", "yieldedLast"}
    /\ phase' = "returned"
    /\ released' = ReleaseLock("stop", released)
    /\ UNCHANGED <<chunks, buffer, lines, out, written, beyondStream>>

\* reader.read() rejects: the error leaves the generator through the
\* finally block
ReadThrows ==
    /\ phase = "reading"
    /\ phase' = "failed"
    /\ released' = ReleaseLock("throw", released)
    /\ UNCHANGED <<chunks, buffer, lines, out, written, beyondStream>>

StreamNext ==
    ReadChunk \/ Pull \/ ReadDone \/ Finish \/ Return \/ ReadThrows

StreamInit ==
    DispatchIdle /\ CacheStart /\ FnStart /\ ChainIdle /\ StreamStart

StreamSpec == StreamInit /\ [][StreamNext]_vars

\* ------------------------------------------------------------ the claims

\* a waiter: queued in concurrencyQueue, or woken and not yet resumed
Waiting(r) == pc[r] \in {"queued", "woken"}

\* the waiters in the order in which they reached the gate
WaitOrder == resumeQ \o concurrencyQueue

Position(r) == CHOOSE i \in 1..Len(WaitOrder) : WaitOrder[i] = r

\* a is waiting at the gate and reached it before b, which is not past it
ReachedGateBefore(a, b) ==
    /\ a # b
    /\ Waiting(a)
    /\ \/ pc[b] = "idle"
       \/ Waiting(b) /\ Position(a) < Position(b)

\* C1: with a concurrency limit N > 0 the number of requests past the gate
\* and not yet released never exceeds N.
C1_ActiveWithinLimit ==
    Truthy(concurrency) => activeRequests <= concurrency

\* C2: waiters are served in arrival order: no caller passes the gate while
\* a caller that reached the gate before it is still waiting there.
C2_FifoOrder ==
    [][\A a, b \in Reqs :
          ReachedGateBefore(a, b) => pc'[b] # "fetching"]_vars

\* C3: under the fairness of FairSpec (woken continuations run, requests
\* past the gate finish) every caller queued at the gate eventually passes it.
C3_WaitersEventuallyPass ==
    \A r \in Reqs : (pc[r] = "queued") ~> HasPassed(r)

\* C3 witness: a caller that was queued at the gate has passed it.
C3_Witness == \E r \in Reqs : waited[r] /\ HasPassed(r)

\* the failure is one of the transport (network failure or timeout)
TransportFailure(o) ==
    o.kind = "error" /\ o.name \in {TypeError, TimeoutError}

\* C4: a request with retry count R makes at most R+1 fetch calls, one
\* after another; a response below 500 after k failed calls is call k+1 and
\* is what retryRequest returns; when all R+1 calls fail at transport level
\* the last failure is raised, and a transport failure is raised only then.
C4_BoundedSequentialRetry ==
    \A r \in Reqs :
        /\ calls[r] <= Retries(r) + 1
        /\ calls[r] - settled[r] = (IF pc[r] = "fetching" THEN 1 ELSE 0)
        /\ (lastOutcome[r].kind = "response"
              /\ lastOutcome[r].status < ServerErrorFloor) =>
                /\ calls[r] = failed[r] + 1
                /\ failed[r] <= Retries(r)
                /\ pc[r] \in {"reading", "done"}
                /\ response[r] = lastOutcome[r].status
        /\ (TransportFailure(lastOutcome[r]) /\ failed[r] = Retries(r) + 1) =>
                /\ pc[r] = "done"
                /\ result[r] = lastOutcome[r]
                /\ calls[r] = Retries(r) + 1
        /\ TransportFailure(result[r]) =>
                /\ failed[r] = Retries(r) + 1
                /\ lastOutcome[r] = result[r]

\* C4 witness: a request with a retry budget of at least 2 failed at least
\* once and then got the response 200 on the following fetch call.
C4_Witness ==
    \E r \in Reqs :
        /\ Retries(r) >= 2
        /\ failed[r] >= 1
        /\ pc[r] = "reading"
        /\ response[r] = 200
        /\ calls[r] = failed[r] + 1

\* the latest fetch call of r has settled with a response of status s and no
\* later call has started
LastResponse(r, s) ==
    /\ lastOutcome[r] = Responded(s)
    /\ settled[r] = calls[r]

\* retryRequest returned the response of status s: the body is being read,
\* or dispatchRequest settled with the envelope of that status (or with the
\* failure of decoding its body)
ReturnedAsResponse(r, s) ==
    /\ response[r] = s
    /\ \/ pc[r] = "reading" /\ result[r] = Pending
       \/ pc[r] = "done" /\ result[r] \in {Envelope(s), Failure(SyntaxError)}

C8_AbortBeforeGate ==
    \A r \in Reqs :
        signalled[r].at \in {"idle", "queued", "woken"} =>
            /\ pc[r] # "reading"
            /\ pc[r] = "done" => result[r] = Failure(AbortError)

\* C9: with a timeout T configured, no fetch call runs longer than T,
\* whether or not the caller supplied a signal.
C9_AttemptBoundedByTimeout ==
    \A r \in Reqs :
        (Truthy(cfg[r].timeout) /\ pc[r] = "fetching") =>
            elapsed[r] <= cfg[r].timeout

\* the base delay the request asks for: its retryDelay, or 1000 when it
\* sets none
ConfiguredBase(r) ==
    IF cfg[r].retryDelay # Undefined THEN cfg[r].retryDelay
    ELSE DefaultRetryDelay

\* C10: the n-th backoff delay is base * 2^(n-1) for the configured base
\* delay (1000 when none is configured), one delay precedes every fetch call
\* but the first and none follows the last.
C10_ExponentialBackoff ==
    \A r \in Reqs :
        /\ \A n \in 1..Len(delays[r]) :
              delays[r][n] = ConfiguredBase(r) * Pow2(n - 1)
        /\ Len(delays[r]) =
              (IF pc[r] = "delaying" THEN calls[r] ELSE calls[r] - 1)
              \/ calls[r] = 0

\* C11: a request with caching enabled whose key has an unexpired entry in
\* the cache, whatever the stored value, gets at once the envelope with
\* status 200 and the cached value, and goes through no interceptor, gate
\* or transport.
C11_CacheHitShortCircuits ==
    (/\ lastOp.op = "request"
     /\ lastOp.found # NoEntry
     /\ now < lastOp.found.expiry)
    => /\ lastOp.ret = CachedEnvelope(lastOp.found.data)
       /\ lastOp.phases = {}

\* C12: a get of key k at elapsed time e after set(k, v, ttl), nothing having
\* set, deleted or cleared k in between, returns v when e < ttl and null when
\* e >= ttl.
C12_GetWithinTtl ==
    (lastOp.op = "get" /\ lastSet[lastOp.key] # NoSet)
    => LET w == lastSet[lastOp.key]
           e == now - w.at
       IN  /\ e < Ttl(w.ttl) => lastOp.ret.data = w.data
           /\ e >= Ttl(w.ttl) => lastOp.ret.data = Null

\* the mapping an object stands for, whatever the order of insertion
MapOf(o) == {o[i] : i \in DOMAIN o}

SameComponent(x, y) ==
    x.defined = y.defined /\ MapOf(x.members) = MapOf(y.members)

\* C13: two request configs have the same derived cache key exactly when
\* they have the same method, path, query-parameter map and body, whatever
\* the order in which the members of the query map and the body were
\* inserted.
C13_CanonicalKeys ==
    derived.op = "keys"
    => (derived.ka = derived.kb
        <=> /\ derived.a.url = derived.b.url
            /\ derived.a.method = derived.b.method
            /\ SameComponent(derived.a.params, derived.b.params)
            /\ SameComponent(derived.a.data, derived.b.data))

\* the request config gives the field a value
Supplied(v) == v # Absent /\ v # Undef

\* C17: in the merged config every header key has the request's value when
\* the request sets the key and the default's otherwise, and every other
\* field has the request's value when the request supplies one and the
\* default's otherwise.
C17_MergePrecedence ==
    merged.op # "none"
    => /\ \A h \in HeaderNames :
             merged.merged.headers[h] =
                IF merged.config.headers[h] # Absent
                THEN merged.config.headers[h]
                ELSE merged.defaults.headers[h]
       /\ \A f \in MergeFields :
             merged.merged.fields[f] =
                IF Supplied(merged.config.fields[f])
                THEN merged.config.fields[f]
                ELSE merged.defaults.fields[f]

\* the slots that hold an interceptor with a failure transform, in order
FailureTransforms(hs) ==
    SelectSeq(Slots(hs),
              LAMBDA i : hs[i] # NullHandler /\ hs[i].rejected # "none")

\* C14: when a request interceptor rejects the config, the request takes no
\* gate slot and makes no transport attempt, and the rejection is handed to
\* the failure transforms of the response interceptors before it reaches
\* the caller.
C14_RequestRejection ==
    (last.op = "request" /\ last.threw # <<>>)
    => /\ ~last.passedGate
       /\ ~last.fetched
       /\ LET ft == FailureTransforms(resHandlers) IN
            ft # <<>>
            => /\ last.offered # <<>>
               /\ last.offered[1] = <<ft[1] - 1, Thrown(last.threw[1])>>

Max(S) == CHOOSE x \in S : \A y \in S : y <= x

\* C15: an error raised once the gate is passed is offered to the failure
\* transforms of the response interceptors in registration order, slots
\* without one being skipped; the first that returns a value ends the
\* offering and its value is the result; one that raises a new error
\* replaces the error for those after it; otherwise the caller gets the
\* original error.
C15_FailureTransforms ==
    (last.op = "request" /\ last.original # NoError)
    => LET ft == FailureTransforms(resHandlers)
           kind(k) == resHandlers[ft[k]].rejected
           recovering == {k \in 1..Len(ft) : kind(k) = "recover"}
           n == IF recovering = {} THEN Len(ft)
                ELSE CHOOSE k \in recovering : \A j \in recovering : k <= j
           Received(k) ==
               LET throwers == {m \in 1..(k - 1) : kind(m) = "throw"}
               IN  IF throwers = {} THEN last.original
                   ELSE Thrown(ft[Max(throwers)] - 1)
       IN  /\ last.offered = [k \in 1..n |-> <<ft[k] - 1, Received(k)>>]
           /\ IF recovering # {}
              THEN /\ last.value = RecoveredValue(ft[n] - 1)
                   /\ last.error = NoError
              ELSE /\ last.value = NoResult
                   /\ last.error = Received(Len(ft) + 1)

\* an error raised by a failure transform was offered to the next one,
\* which returned a value
C15_Witness ==
    /\ last.op = "request"
    /\ last.original # NoError
    /\ Len(last.offered) = 2
    /\ last.offered[2][2] # last.original
    /\ last.value.kind = "value"

\* the marks the success transforms of a phase leave, in registration order
Tags(hs) ==
    LET sel == SelectSeq(Slots(hs), LAMBDA i : hs[i].fulfilled = "tag")
    IN  [k \in 1..Len(sel) |-> <<"tag", sel[k] - 1>>]

Mutating(hs) == \E i \in DOMAIN hs : hs[i].fulfilled = "mutate"

\* C16: the success transforms of a phase run in registration order, each
\* on the output of the one before, those that were unregistered being left
\* out: the config that reaches the transport is the merged config
\* transformed so, and the envelope the caller gets likewise.
C16_TransformOrder ==
    last.op = "request"
    => /\ last.threw = <<>>
          => /\ last.passedGate
             /\ last.atTransport.trace = Tags(reqHandlers)
             /\ ~Mutating(reqHandlers)
                => last.atTransport =
                      [last.merged EXCEPT !.trace = Tags(reqHandlers)]
       /\ last.value.kind = "envelope"
          => /\ last.value.trace = Tags(resHandlers)
             /\ last.value.config = last.atTransport

\* the first request interceptor was unregistered and a request was
\* transformed by the second alone
C16_Witness ==
    /\ last.op = "request"
    /\ Len(reqHandlers) = 2
    /\ reqHandlers[1] = NullHandler
    /\ last.atTransport.trace = <<<<"tag", 1>>>>

\* C18: the defaults of the client are what they were at construction,
\* whatever requests were executed and whatever their request interceptors
\* did to the config they received, and a header an interceptor set on one
\* request is not in the merged config of a later one.
C18_DefaultsUnchanged ==
    /\ defaults = defaults0
    /\ last.op = "request" => last.merged.headers["h2"] = Absent

\* the value a line stands for, if it is well formed
EventOf(line) ==
    IF line = <<Marker, "1">> THEN <<1>>
    ELSE IF line = <<"2">> THEN <<2>>
    ELSE <<>>

\* the values of the well-formed lines among ls, in order
EventsOf(ls) == Flatten([i \in DOMAIN ls |-> EventOf(ls[i])])

\* the lines of the body that were ended by a line break
CompleteLines ==
    IF written.terminated THEN written.lines
    ELSE SubSeq(written.lines, 1, Len(written.lines) - 1)

\* the complete lines that are the marker followed by the end sentinel
SentinelLines ==
    {i \in DOMAIN CompleteLines : CompleteLines[i] = <<Marker, Sentinel>>}

Min(S) == CHOOSE x \in S : \A y \in S : x <= y

BeforeSentinel == SubSeq(CompleteLines, 1, Min(SentinelLines) - 1)

IsPrefix(a, b) == Len(a) <= Len(b) /\ a = SubSeq(b, 1, Len(a))

\* C19: once a complete line is the marker followed by the end sentinel,
\* the decoder yields nothing from that line or from anything after it:
\* what it yields is the values of the lines before the sentinel, in source
\* order, and all of them once it has ended.
C19_SentinelEndsStream ==
    SentinelLines # {}
    => /\ IsPrefix(out, EventsOf(BeforeSentinel))
       /\ phase = "closed" => out = EventsOf(BeforeSentinel)

\* the decoder has ended at a sentinel that a well-formed line follows,
\* having yielded a value before it
C19_Witness ==
    /\ phase = "closed"
    /\ SentinelLines # {}
    /\ out # <<>>
    /\ \E i \in DOMAIN written.lines :
          i > Min(SentinelLines) /\ EventOf(written.lines[i]) # <<>>

\* the lines the decoder is to decode: all of them, or those before the
\* sentinel
Decoded == IF SentinelLines = {} THEN written.lines ELSE BeforeSentinel

\* C20: a line that is blank or whose payload does not parse yields
\* nothing and does not stop the decoder: the values yielded are those of
\* the well-formed lines before the end of the stream or the sentinel, in
\* order, and all of them once the decoder has ended.
C20_MalformedLinesDropped ==
    (\E i \in DOMAIN Decoded : EventOf(Decoded[i]) = <<>>)
    => /\ IsPrefix(out, EventsOf(Decoded))
       /\ phase = "closed" => out = EventsOf(Decoded)

\* the decoder has ended, having yielded the value of a line that follows
\* a line whose payload does not parse
C20_Witness ==
    /\ phase = "closed"
    /\ out # <<>>
    /\ \E i, j \in DOMAIN Decoded :
          /\ i < j
          /\ Decoded[i] \in {<<Marker, "x">>, <<"x">>, <<Sentinel>>}
          /\ EventOf(Decoded[j]) # <<>>

\* the generator has ended: completed, ended by the consumer, or failed
Ended == phase \in {"closed", "returned", "failed"}

\* C21: the reader streamJson acquired is released exactly once however the
\* decoding ends (source exhausted, sentinel, consumer stopping at a yield,
\* read failure), and is not released before it ends.
C21_ReaderReleasedOnce == released = (IF Ended THEN 1 ELSE 0)

\* the consumer stopped after the first value while chunks were still to
\* come, and the reader was released
C21_Witness ==
    /\ phase = "returned"
    /\ Len(out) = 1
    /\ chunks # <<>>
    /\ released = 1

\* what the loop over the lines ls yields, and whether it met the sentinel
RECURSIVE EventsFrom(_)
EventsFrom(ls) ==
    LET r == Scan(ls) IN
    IF r.kind = "emit"
    THEN LET after == EventsFrom(r.rest)
         IN  [out |-> <<r.value>> \o after.out, stopped |-> after.stopped]
    ELSE [out |-> <<>>, stopped |-> r.kind = "stop"]

\* what the decoder yields when the text arrives as a single chunk
Unchunked(text) ==
    LET parts == Split(text)
        d == EventsFrom(SubSeq(parts, 1, Len(parts) - 1))
        r == HandleResidue(Retained(parts))
    IN  IF d.stopped \/ r.kind # "emit" THEN d.out ELSE Append(d.out, r.value)

\* C26: what the decoder yields depends on the text of the body alone and
\* not on how it is cut into chunks: it is at every moment a prefix of what
\* the same text yields as a single chunk, and equal to it once the decoder
\* has run to its end.
C26_ChunkingIndependent ==
    /\ IsPrefix(out, Unchunked(written.text))
    /\ phase = "closed" => out = Unchunked(written.text)

\* a body with \r\n line breaks and an unterminated last line, which
\* arrived symbol by symbol, was decoded to its end and gave two values,
\* the second from the residual buffer
C26_Witness ==
    /\ phase = "closed"
    /\ written.cut = 1
    /\ ~written.terminated
    /\ \E i \in DOMAIN written.text : written.text[i] = CR
    /\ Len(out) = 2
    /\ EventOf(written.lines[Len(written.lines)]) # <<>>

\* C22: a body declared as JSON that does not parse does not make the
\* request fail: the error of response.json() is raised to nobody, neither
\* to the failure transforms of the response interceptors nor to the caller.
C22_ParseErrorSwallowed ==
    last.op = "request"
    => /\ last.original # Raised(SyntaxError)
       /\ \A i \in DOMAIN last.offered :
             last.offered[i][2] # Raised(SyntaxError)
       /\ last.error # Raised(SyntaxError)

\* C23: with no concurrency limit, or with a limit of zero, no request is
\* ever put in the wait queue or suspended at the gate, however many
\* requests are in flight.
C23_UnboundedWithoutLimit ==
    (concurrency = Undefined \/ concurrency = 0)
    => /\ concurrencyQueue = <<>>
       /\ resumeQ = <<>>
       /\ \A r \in Reqs : ~waited[r] /\ ~Waiting(r)

\* with a limit of zero every request of the run is past the gate at once
C23_Witness ==
    /\ concurrency = 0
    /\ activeRequests = NumReqs
    /\ \A r \in Reqs : pc[r] = "fetching"

\* the requests between gate passage and release
InFlight == {r \in Reqs : pc[r] \in {"fetching", "delaying", "reading"}}

\* C24: the active count is at every moment the number of requests that
\* have passed the gate and not yet finished, a request counting once
\* through all its fetch calls and backoff delays and no longer once it has
\* finished, however it finished; the count is never negative and is 0
\* when no request is in flight.
C24_SlotAccounting ==
    /\ activeRequests = Cardinality(InFlight)
    /\ activeRequests >= 0
    /\ InFlight = {} => activeRequests = 0

\* a request that was retried and failed in the end has given its slot
\* back
C24_Witness ==
    \E r \in Reqs :
        /\ pc[r] = "done"
        /\ result[r].kind = "error"
        /\ Len(delays[r]) >= 1
        /\ activeRequests = 0

\* C29: a request that has passed the gate and not yet finished has an
\* entry of its own in the pending-call registry, under its id, whatever
\* other requests were issued and finished meanwhile (those with the same
\* method, path and timestamp included), and the registry is empty when no
\* request is in flight.
C29_PendingCalls ==
    /\ \A r \in InFlight : <<requestId[r], r>> \in pendingRequests
    /\ InFlight = {} => pendingRequests = {}

\* C25: a request with caching enabled that gets a response writes the
\* body to the cache under the key it looked up when it started, whatever
\* its request interceptors did to the config.
C25_WriteKeyIsLookupKey ==
    (lastOp.op = "request" /\ lastOp.wrote # "")
    => lastOp.wrote = lastOp.key

\* C28: get(k) of an expired entry removes the entry of k, get(k) of a
\* missing or unexpired one leaves the map as it is, and get(k), set(k) and
\* delete(k) never change the entry of another key; clear() empties the
\* map.
C28_LazyLocalEviction ==
    [][/\ \A k \in Keys :
            /\ Get(k) =>
                  store'[k] =
                     IF store[k] # NoEntry /\ now > store[k].expiry
                     THEN NoEntry ELSE store[k]
            /\ (Get(k) \/ Delete(k)
                  \/ \E v \in Values, t \in Ttls : Set(k, v, t))
               => \A j \in Keys \ {k} : store'[j] = store[j]
       /\ Clear => \A k \in Keys : store'[k] = NoEntry]_vars

\* a get has removed the expired entry of its key and left the entry of
\* the other key, expired as well, in the map
C28_Witness ==
    /\ lastOp.op = "get"
    /\ lastSet[lastOp.key] # NoSet
    /\ store[lastOp.key] = NoEntry
    /\ \E j \in Keys \ {lastOp.key} :
          store[j] # NoEntry /\ now > store[j].expiry

\* use(h) has turned the array hs into hs2 and returned `handle`: the
\* handle is the number of registrations made before, the new interceptor
\* is in the slot of that handle and no other slot has changed
Registers(hs, hs2, h, handle) ==
    /\ handle = Len(hs)
    /\ Len(hs2) = Len(hs) + 1
    /\ hs2[handle + 1] = h
    /\ \A i \in DOMAIN hs : hs2[i] = hs[i]

\* eject(id) has turned the array hs into hs2: the slot of id is inactive
\* if there is one, and no other slot has changed
Unregisters(hs, hs2, id) ==
    /\ Len(hs2) = Len(hs)
    /\ \A i \in DOMAIN hs :
          hs2[i] = IF i = id + 1 THEN NullHandler ELSE hs[i]

\* C27: the k-th registration on a chain (from 0) returns the handle k,
\* whatever was unregistered before, so that handles grow and are never
\* given twice; unregistering a handle makes its slot inactive, for good,
\* and changes no other slot; unregistering a handle that was never
\* returned, or one already unregistered, changes nothing.
C27_StableHandles ==
    [][/\ \A h \in RequestInterceptors :
            UseRequest(h) =>
                Registers(reqHandlers, reqHandlers', h, last'.handle)
       /\ \A h \in ResponseInterceptors :
            UseResponse(h) =>
                Registers(resHandlers, resHandlers', h, last'.handle)
       /\ \A id \in EjectIds :
            /\ EjectRequest(id) =>
                  Unregisters(reqHandlers, reqHandlers', id)
            /\ EjectResponse(id) =>
                  Unregisters(resHandlers, resHandlers', id)
       /\ \A i \in DOMAIN reqHandlers :
            reqHandlers[i] = NullHandler => reqHandlers'[i] = NullHandler
       /\ \A i \in DOMAIN resHandlers :
            resHandlers[i] = NullHandler => resHandlers'[i] = NullHandler]_vars

\* the registration made after handle 0 was unregistered got the handle 1,
\* and the slot of handle 0 is still inactive
C27_Witness ==
    /\ last.op = "use"
    /\ last.handle = 1
    /\ Len(reqHandlers) = 2
    /\ reqHandlers[1] = NullHandler
    /\ reqHandlers[2] # NullHandler

=============================================================================
